---- MODULE Spec2Model ----
(***************************************************************************)
(* Model of the ratelimit dependency of ratelimit-fastapi                  *)
(* (src/ratelimit/__init__.py) together with the evaluator (util.py), the  *)
(* endpoint record (endpoint.py), the handler context (context.py), the    *)
(* error (error.py) and the two stores.                                    *)
(*                                                                         *)
(* Time is counted in ticks, TicksPerSec ticks to the second; every        *)
(* duration a rule or an intent gives in seconds is converted with Sec.    *)
(* One endpoint (path, method) is modelled; the store keeps its global     *)
(* record and one local record per identity.  A request is a process that  *)
(* moves through the await points of the dependency; between two await     *)
(* points its code runs atomically (asyncio), and the clock may advance    *)
(* and other requests may run at every await.                              *)
(***************************************************************************)
EXTENDS Integers, Sequences, FiniteSets, TLC

\* ------------------------------------------------------------------ bounds

TicksPerSec == 2
MaxTime == 6
MaxRequests == 3
MaxInFlight == 2
MaxEventful == 1
MaxSetupCalls == 3
AgingTime == 13
AgingRequests == 4
FoundRequests == 1

\* Python's None for an optional number (endpoint.py:13-16, rule.py:8-15)
None == -1

Sec(s) == s * TicksPerSec

\* math.ceil of a duration of d ticks expressed in seconds (error.py:39-50)
CeilSeconds(d) == -((-d) \div TicksPerSec)

Min(a, b) == IF a <= b THEN a ELSE b
Max(a, b) == IF a >= b THEN a ELSE b

\* ------------------------------------------------------------------- rules

\* config.py:9
DEFAULT_BLOCK_TIME == 300

AnyGroup == [kind |-> "none", names |-> {}]
OneGroup(g) == [kind |-> "str", names |-> {g}]
ListGroup(names) == [kind |-> "list", names |-> names]

\* rule.py:6-27: the fields of LimitRule that the engine reads (message and
\* reason only travel into the error body)
LimitRule(hits, batch_time, delay, block_time, increase_rank, affected_group) ==
    [hits |-> hits, batch_time |-> batch_time, delay |-> delay,
     block_time |-> block_time, increase_rank |-> increase_rank,
     affected_group |-> affected_group]

\* "rule is None": a value no LimitRule constructor call returns
NoRule == LimitRule(None, None, None, None, FALSE, AnyGroup)

HitsRule(n, w, b, inc) == LimitRule(n, w, None, b, inc, AnyGroup)
DelayRule(d, b, inc) == LimitRule(None, None, d, b, inc, AnyGroup)

\* ------------------------------------------------------------ the records

\* endpoint.py:8-17
Endpoint(hits, ignore_times, ignore_until, blocked_at, blocked_by_rule) ==
    [hits |-> hits, ignore_times |-> ignore_times, ignore_until |-> ignore_until,
     blocked_at |-> blocked_at, blocked_by_rule |-> blocked_by_rule]

\* store/redis.py:33,51-59: the record returned when the key is absent
DefaultEndpoint == Endpoint(<<>>, None, None, None, NoRule)

\* blocked with the comparison of line 27 turned into >=
blocked_inclusive(e, t) ==
    /\ e.blocked_by_rule # NoRule
    /\ e.blocked_at + Sec(e.blocked_by_rule.block_time) >= t

\* endpoint.py:19-28; t is the value of util.utcnow() at the call
blocked(e, t) ==
    /\ e.blocked_by_rule # NoRule
    /\ e.blocked_at + Sec(e.blocked_by_rule.block_time) > t

\* ------------------------------------------------------- list operations

Contains(s, x) == \E i \in 1..Len(s) : s[i] = x

\* list.remove(x): drops the first occurrence
RECURSIVE Remove(_, _)
Remove(s, x) ==
    IF s = <<>> THEN <<>>
    ELSE IF Head(s) = x THEN Tail(s)
    ELSE <<Head(s)>> \o Remove(Tail(s), x)

\* The slice taken from the front of the list, s[:m]
LastSlice_from_front(s, m) ==
    IF m = 0 \/ m >= Len(s) THEN s
    ELSE SubSeq(s, 1, m)

\* s[-m:] of Python: -0 is 0, so s[-0:] is the whole list
LastSlice(s, m) ==
    IF m = 0 \/ m >= Len(s) THEN s
    ELSE SubSeq(s, Len(s) - m + 1, Len(s))

\* s[:-1]
DropLast(s) == IF s = <<>> THEN <<>> ELSE SubSeq(s, 1, Len(s) - 1)

\* ------------------------------------------------------------ evaluation

\* get_rules_for_group that keeps every rule
get_rules_for_group_any(rules, group) ==
    rules

\* util.py:98-113
get_rules_for_group(rules, group) ==
    LET Keep(r) == \/ r.affected_group.kind = "none"
                   \/ group \in r.affected_group.names
    IN SelectSeq(rules, Keep)

\* util.py:84-95
RuleMaxHits(r) == IF r.delay # None THEN 2 ELSE r.hits

RECURSIVE get_max_hits(_)
get_max_hits(rules) ==
    IF rules = <<>> THEN 0
    ELSE Max(RuleMaxHits(Head(rules)), get_max_hits(Tail(rules)))

\* CountInWindow with the comparison of line 68 turned into >
CountInWindow_strict(hits, t, batch_time) ==
    Cardinality({i \in 1..Len(hits) : hits[i] > t - Sec(batch_time)})

\* CountInWindow that counts every hit of the list, whatever its age
CountInWindow_whole_list(hits, t, batch_time) ==
    Len(hits)

\* util.py:61-72: hits of the list inside the window that ends at t
CountInWindow(hits, t, batch_time) ==
    Cardinality({i \in 1..Len(hits) : hits[i] >= t - Sec(batch_time)})

\* util.py:58-81 for one rule
RuleExceeded(r, hits, t) ==
    \/ /\ r.hits # None
       /\ CountInWindow(hits, t, r.batch_time) >= r.hits
    \/ /\ r.delay # None
       /\ Len(hits) >= 2
       /\ hits[Len(hits)] - hits[Len(hits) - 1] < Sec(r.delay)

RECURSIVE FirstExceeded(_, _, _)
FirstExceeded(rules, hits, t) ==
    IF rules = <<>> THEN NoRule
    ELSE IF RuleExceeded(Head(rules), hits, t) THEN Head(rules)
    ELSE FirstExceeded(Tail(rules), hits, t)

Signal(kind, context, rule) == [kind |-> kind, context |-> context, rule |-> rule]

\* get_exceeded_rule that also ignores on a global count of zero
get_exceeded_rule_counts_zero(rules, endpoint, user_endpoint, group, t) ==
    IF endpoint.ignore_times # None
      THEN Signal("IgnoreByCount", "endpoint", NoRule)
    ELSE Signal("rule", "",
                FirstExceeded(get_rules_for_group(rules, group),
                              user_endpoint.hits, t))

\* get_exceeded_rule that looks at the identity's count before the global one
get_exceeded_rule_identity_first(rules, endpoint, user_endpoint, group, t) ==
    IF user_endpoint.ignore_times # None /\ user_endpoint.ignore_times > 0
      THEN Signal("IgnoreByCount", "user", NoRule)
    ELSE IF endpoint.ignore_times # None /\ endpoint.ignore_times > 0
      THEN Signal("IgnoreByCount", "endpoint", NoRule)
    ELSE IF endpoint.ignore_until # None /\ endpoint.ignore_until >= t
      THEN Signal("IgnoreByTime", "endpoint", NoRule)
    ELSE IF user_endpoint.ignore_until # None /\ user_endpoint.ignore_until >= t
      THEN Signal("IgnoreByTime", "user", NoRule)
    ELSE Signal("rule", "",
                FirstExceeded(get_rules_for_group(rules, group),
                              user_endpoint.hits, t))

\* util.py:30-81; t is the evaluator's own reading of util.utcnow()
get_exceeded_rule(rules, endpoint, user_endpoint, group, t) ==
    IF endpoint.ignore_times # None /\ endpoint.ignore_times > 0
      THEN Signal("IgnoreByCount", "endpoint", NoRule)
    ELSE IF user_endpoint.ignore_times # None /\ user_endpoint.ignore_times > 0
      THEN Signal("IgnoreByCount", "user", NoRule)
    ELSE IF endpoint.ignore_until # None /\ endpoint.ignore_until >= t
      THEN Signal("IgnoreByTime", "endpoint", NoRule)
    ELSE IF user_endpoint.ignore_until # None /\ user_endpoint.ignore_until >= t
      THEN Signal("IgnoreByTime", "user", NoRule)
    ELSE Signal("rule", "",
                FirstExceeded(get_rules_for_group(rules, group),
                              user_endpoint.hits, t))

\* --------------------------------------------------------------- context

\* context.py:12-17
IgnoreData(times, seconds, level, count_this) ==
    [times |-> times, seconds |-> seconds, level |-> level, count_this |-> count_this]

\* context.py:20-23; kind "none" stands for rank_data is None
RankData(kind, increase_by) == [kind |-> kind, increase_by |-> increase_by]

\* context.py:26-30; set = FALSE stands for limit_data is None
LimitData(set, for_seconds) == [set |-> set, for_seconds |-> for_seconds]

NoIgnore == IgnoreData(None, None, "unset", FALSE)
NoRank == RankData("none", 0)
NoLimit == LimitData(FALSE, None)

\* context.py:33-37, 42
ContextData(ignore_data, rank_data, limit_data) ==
    [ignore_data |-> ignore_data, rank_data |-> rank_data, limit_data |-> limit_data]

EmptyContext == ContextData(NoIgnore, NoRank, NoLimit)

\* context.py:53-64
ignore_user(data, for_seconds, for_times, count_this) ==
    [data EXCEPT !.ignore_data = IgnoreData(for_times, for_seconds, "authority", count_this)]

\* context.py:50-51
ignore_hit(data) == ignore_user(data, None, 1, TRUE)

\* context.py:66-80
ignore_all_users(data, for_seconds, for_times, count_this) ==
    LET times == IF count_this /\ for_times # None /\ for_times # 0
                 THEN for_times - 1 ELSE for_times
    IN [data EXCEPT !.ignore_data = IgnoreData(times, for_seconds, "endpoint", count_this)]

\* context.py:82-86
reset_rank(data) == [data EXCEPT !.rank_data = RankData("reset", 0)]

\* context.py:88-94
increase_rank(data, by) == [data EXCEPT !.rank_data = RankData("increase", by)]

\* context.py:96-109
limit(data, for_seconds) == [data EXCEPT !.limit_data = LimitData(TRUE, for_seconds)]

\* ------------------------------------------------------------------ errors

\* LimitedFor that measures from the request's timestamp in every case
LimitedFor_from_request(rule, endpoint, limited_at, no_block_delay_option, t) ==
    CeilSeconds(Sec(rule.block_time))

\* error.py:37-50: limited_for of RateLimitedError(rule, endpoint, limited_at, ...,
\* options); t is the constructor's reading of util.utcnow()
LimitedFor(rule, endpoint, limited_at, no_block_delay_option, t) ==
    IF no_block_delay_option /\ rule.delay # None
    THEN CeilSeconds(endpoint.hits[Len(endpoint.hits)] + Sec(rule.delay) - t)
    ELSE CeilSeconds(limited_at + Sec(rule.block_time) - t)

\* error.py:56-60
ErrorType(rule) ==
    IF rule.delay # None THEN "ratelimit.delay_exceeded" ELSE "ratelimit.hits_exceeded"

\* The classes a handler may raise, with their base classes (fastapi's
\* HTTPException and a subclass of it, and one class outside that family),
\* and asyncio's CancelledError, which is no Exception
Bases(cls) ==
    CASE cls = "HTTPSubclass" -> {"HTTPSubclass", "HTTPException", "Exception"}
      [] cls = "HTTPException" -> {"HTTPException", "Exception"}
      [] cls = "ValueError" -> {"ValueError", "Exception"}
      [] cls = "CancelledError" -> {"CancelledError", "BaseException"}
      [] OTHER -> {}

\* isinstance(e, classes)
IsInstance(cls, classes) == Bases(cls) \cap classes # {}

\* --------------------------------------------------------- configuration

\* The arguments of one ratelimit(...) call (__init__.py:80-85); ranks is the
\* sequence of bundles, a bundle the sequence of its rules
Site(ranks, no_block_delay, no_hit_on_exceptions) ==
    [ranks |-> ranks, no_block_delay |-> no_block_delay,
     no_hit_on_exceptions |-> no_hit_on_exceptions]

Burst == Site(<< <<HitsRule(2, 1, 1, FALSE)>> >>, TRUE, {"ValueError", "HTTPSubclass"})
Strict == Site(<< <<HitsRule(1, 1, 2, TRUE)>> >>, TRUE, {"ValueError"})
Paced == Site(<< <<DelayRule(1, 2, FALSE)>> >>, TRUE, {})
PacedBlocking == Site(<< <<DelayRule(1, 1, TRUE)>> >>, FALSE, {})
Ladder == Site(<< <<HitsRule(2, 2, 1, TRUE)>>, <<HitsRule(1, 2, 1, FALSE)>> >>, TRUE,
               {"HTTPException"})
Open == Site(<< <<>> >>, TRUE, {})

Sites == {Burst, Strict, Paced, PacedBlocking, Ladder, Open}

\* A site whose window is much longer than its block, explored on its own
\* over a longer stretch of time
Aging == Site(<< <<HitsRule(2, 5, 1, FALSE)>> >>, TRUE, {})

\* A site with rules for groups and a second bundle, explored with requests
\* that find records already in the stores
Grouped ==
    Site(<< << LimitRule(1, 1, None, 1, FALSE, OneGroup("admin")),
               LimitRule(3, 2, None, 1, TRUE, ListGroup({"admin", "default"})),
               DelayRule(1, 1, FALSE) >>,
            << HitsRule(1, 1, 1, TRUE) >> >>, FALSE, {})

\* The sites and the identity explored with overlapping requests
OverlapSites == {Strict}
OverlapUsers == {"U1"}

Users == {"U1", "U2"}

\* The identity the authentication function derives from a request
\* (user.py:10-12): its group, and its rank (the default 0)
Group(u) == IF u = "U1" THEN "default" ELSE "admin"
ContextRank(u) == IF u = "U1" THEN 0 ELSE 1

\* user.py:10-18: a user model
User(unique_id, rank) == [unique_id |-> unique_id, rank |-> rank, group |-> Group(unique_id)]

\* What the f-string of key_maker renders for its argument: a user id renders
\* as the id, a user model as the printed form of all its fields
IdText(user_id) == [unique_id |-> user_id, rank |-> None, group |-> ""]
ModelText(user) == [unique_id |-> user.unique_id, rank |-> user.rank, group |-> user.group]

\* ranking/redis.py:10-11
key_maker(text) == [prefix |-> "authority", text |-> text]

\* ranking/redis.py:28-33: RedisRanking.save_user sets key_maker(user)
save_user(entries, user) ==
    {e \in entries : e.key # key_maker(ModelText(user))}
        \cup {[key |-> key_maker(ModelText(user)), value |-> user]}

\* ranking/redis.py:35-41: RedisRanking.get_user reads key_maker(user_id);
\* None when the key is absent
get_user(entries, user_id) ==
    IF \E e \in entries : e.key = key_maker(IdText(user_id))
    THEN (CHOOSE e \in entries : e.key = key_maker(IdText(user_id))).value.rank
    ELSE None

\* What one run of the wrapped handler does: the context calls it makes and
\* the exception class it raises ("" when it returns normally)
Behaviour(data, exc) == [data |-> data, exc |-> exc]

Behaviours ==
    { Behaviour(EmptyContext, ""),
      Behaviour(EmptyContext, "ValueError"),
      Behaviour(EmptyContext, "HTTPException"),
      Behaviour(EmptyContext, "HTTPSubclass"),
      Behaviour(ignore_hit(EmptyContext), ""),
      Behaviour(ignore_user(EmptyContext, None, 2, TRUE), ""),
      Behaviour(ignore_user(EmptyContext, 1, None, FALSE), ""),
      Behaviour(ignore_all_users(EmptyContext, None, 2, TRUE), ""),
      Behaviour(ignore_all_users(EmptyContext, 1, None, FALSE), ""),
      Behaviour(reset_rank(EmptyContext), ""),
      Behaviour(increase_rank(EmptyContext, 2), ""),
      Behaviour(increase_rank(EmptyContext, -1), ""),
      Behaviour(limit(EmptyContext, 1), ""),
      Behaviour(limit(EmptyContext, None), ""),
      Behaviour(limit(increase_rank(ignore_all_users(EmptyContext, None, 1, TRUE), 1), 1), ""),
      Behaviour(limit(increase_rank(ignore_hit(EmptyContext), 1), 1), "ValueError") }

\* ------------------------------------------------- rule construction

\* The values tried for hits, batch_time and delay, and for block_time; None
\* is -1, so the negative number tried is -2
RuleNumbers == {None, -2, 0, 1, 2}
BlockTimes == {-2, 0, 1, DEFAULT_BLOCK_TIME}
RuleGroups == {AnyGroup, OneGroup("admin"), ListGroup({}), ListGroup({"admin", "default"})}

\* rule.py:29-69: LimitRule.__post_init__, "ok" or the exception it raises
post_init(self) ==
    IF self.hits = None /\ self.batch_time = None /\ self.delay = None THEN "ValueError"
    ELSE IF self.hits # None /\ self.batch_time = None THEN "ValueError"
    ELSE IF (self.hits # None \/ self.batch_time # None) /\ self.delay # None
      THEN "ValueError"
    ELSE IF self.delay # None /\ self.delay <= 0 THEN "ValueError"
    ELSE IF self.hits # None /\ self.hits <= 0 THEN "ValueError"
    ELSE IF self.batch_time # None /\ self.batch_time <= 0 THEN "ValueError"
    ELSE IF self.affected_group.kind \notin {"none", "list", "str"} THEN "ValueError"
    ELSE IF self.affected_group.kind = "list" /\ self.affected_group.names = {}
      THEN "ValueError"
    ELSE "ok"

\* A LimitRule(...) call: the fields given and what became of it
RuleCall(self, result) == [self |-> self, result |-> result]
NoRuleCall == RuleCall(NoRule, "none")

\* ------------------------------------------------------------------- setup

\* config.py:11-13
ENDPOINT_TTL == 3600

\* The attributes of the FastAPI application object; setup never adds any
AppAttributes == {"router", "dependency_overrides"}

\* util.py:116-117: is_setup(app), called with the arguments argv
is_setup(argv) ==
    IF Len(argv) # 1 THEN "TypeError"
    ELSE IF {"STORE", "RANKING"} \subseteq argv[1] THEN "True"
    ELSE "False"

\* The arguments of a setup_ratelimit call (__init__.py:35-50)
SetupArgs(ranking_arg, store_arg, authentication_func, ttl, reason_builder) ==
    [ranking |-> ranking_arg, store |-> store_arg,
     authentication_func |-> authentication_func, ttl |-> ttl,
     reason_builder |-> reason_builder]

NoArgs == SetupArgs("", "", "", 0, "")

\* The config module (config.py:9-25) with what the model keeps of the calls:
\* the number of setup calls, the arguments and outcome of the last call, and
\* the outcome of the last request that reached the guard of dependency()
ConfigModule(store, ranking_store, ttl, reason_builder, calls, args, outcome, guard) ==
    [STORE |-> store, RANKING |-> ranking_store, ENDPOINT_TTL |-> ttl,
     REASON_BUILDER |-> reason_builder, calls |-> calls, args |-> args,
     outcome |-> outcome, guard |-> guard]

\* config.py as imported: STORE and RANKING are declared and not set
Unconfigured == ConfigModule("", "", ENDPOINT_TTL, "REASON_BUILDER", 0, NoArgs, "", "")

\* The configuration the requests of the engine run under: they are followed
\* from line 103 of dependency() on, with a store and a ranking store in place
Configured ==
    ConfigModule("RedisStore", "RedisRanking", ENDPOINT_TTL, "REASON_BUILDER", 1, NoArgs, "ok", "")

\* __init__.py:52-78: setup_ratelimit, the outcome and the config module after it
setup_ratelimit(cfg, args) ==
    LET called == [cfg EXCEPT !.calls = cfg.calls + 1, !.args = args]
        guard == is_setup(<<>>)
    IN IF guard = "TypeError" THEN [called EXCEPT !.outcome = "TypeError"]
       ELSE IF guard = "True" THEN [called EXCEPT !.outcome = "ValueError"]
       ELSE IF args.ranking # "RedisRanking" THEN [called EXCEPT !.outcome = "TypeError"]
       ELSE IF args.store # "RedisStore" THEN [called EXCEPT !.outcome = "TypeError"]
       ELSE IF args.authentication_func # "callable" THEN [called EXCEPT !.outcome = "TypeError"]
       ELSE [called EXCEPT !.outcome = "ok", !.ENDPOINT_TTL = args.ttl,
                           !.REASON_BUILDER = args.reason_builder,
                           !.RANKING = args.ranking, !.STORE = args.store]

\* __init__.py:100-101: the guard at the head of dependency()
dependency_guard ==
    LET guard == is_setup(<<>>)
    IN IF guard = "TypeError" THEN "TypeError"
       ELSE IF guard = "False" THEN "ValueError"
       ELSE "pass"

\* ------------------------------------------------------- the ambient slot

\* context.py:112-114: a ContextVar holds one value per execution context.
\* Every in-flight activation runs in an execution context of its own; a
\* RatelimitContext is named after the activation that made it, 0 is "not set"
NotSet == 0

\* __init__.py:259: _RatelimitContextContainer.set(ctx) in execution context r
ContextVar_set(slots, r, ctx) == [slots EXCEPT ![r] = ctx]

\* __init__.py:279: _RatelimitContextContainer.reset(token); the token of an
\* activation's only set() restores "not set"
ContextVar_reset(slots, r) == [slots EXCEPT ![r] = NotSet]

\* context.py:117-122: require_ratelimit_context() in execution context r
require_ratelimit_context(slots, r) == slots[r]

\* ------------------------------------------------------------------- state

VARIABLES
    clock,      \* util.utcnow(), in ticks
    site,       \* the ratelimit(...) arguments of the endpoint
    ranking,    \* RedisRanking: the entries set so far, each a key and the user saved under it
    ustore,     \* Store: unique_id -> the identity's local record of the endpoint
    estore,     \* Store: the global record of the endpoint
    req,        \* the in-flight requests: slot -> locals of dependency()
    started,    \* unique_id -> number of requests of the identity started so far
    eventful,   \* number of handler runs so far that did more than return
    config,     \* the config module and the setup calls made so far
    made,       \* a LimitRule(...) call: its arguments and its outcome
    slot        \* _RatelimitContextContainer: execution context -> the context bound in it

vars == <<clock, site, ranking, ustore, estore, req, started, eventful, config, made, slot>>

Reqs == 1..MaxInFlight

\* The locals of dependency() (__init__.py:94-424) and what became of the request
IdleRequest ==
    [pc |-> "idle", uid |-> "", now |-> None, rank |-> 0,
     user_endpoint |-> DefaultEndpoint, endpoint |-> DefaultEndpoint,
     rules |-> <<>>, rule |-> NoRule, signal |-> Signal("", "", NoRule),
     data |-> EmptyContext,
     raised |-> "", raised_at |-> "", limited_for |-> 0, error_type |-> "",
     handler_ran |-> FALSE,
     nth |-> 0, loaded |-> DefaultEndpoint, loaded_global |-> DefaultEndpoint,
     loaded_rank |-> 0, t_check |-> None, obtained |-> NotSet, asked |-> EmptyContext,
     t_raise |-> None, writes |-> {}, presaved |-> FALSE, saved |-> DefaultEndpoint]

Init ==
    /\ clock = 0
    /\ site \in Sites
    /\ ranking = {}
    /\ ustore = [u \in Users |-> DefaultEndpoint]
    /\ estore = DefaultEndpoint
    /\ req = [r \in Reqs |-> IdleRequest]
    /\ started = [u \in Users |-> 0]
    /\ eventful = 0
    /\ config = Configured
    /\ made = NoRuleCall
    /\ slot = [r \in Reqs |-> NotSet]

\* ------------------------------------------- the code between two awaits

\* LimitStage that never looks at the bundle for the block time
LimitStage_no_bundle(q) ==
    IF q.data.limit_data.set
    THEN LET for_seconds == q.data.limit_data.for_seconds
             block_time == IF for_seconds # None THEN for_seconds ELSE DEFAULT_BLOCK_TIME
             rule == LimitRule(1, 1, None, block_time, TRUE, AnyGroup)
         IN [q EXCEPT !.user_endpoint.blocked_by_rule = rule,
                      !.user_endpoint.blocked_at = q.now,
                      !.pc = "intent_save_limit"]
    ELSE [q EXCEPT !.pc = "done"]

\* __init__.py:384-420: the limit intent, up to the await of line 420
LimitStage(q) ==
    IF q.data.limit_data.set
    THEN LET for_seconds == q.data.limit_data.for_seconds
             block_time == IF for_seconds # None THEN for_seconds
                           ELSE IF q.rules # <<>> THEN q.rules[1].block_time
                           ELSE DEFAULT_BLOCK_TIME
             rule == LimitRule(1, 1, None, block_time, TRUE, AnyGroup)
         IN [q EXCEPT !.user_endpoint.blocked_by_rule = rule,
                      !.user_endpoint.blocked_at = q.now,
                      !.pc = "intent_save_limit"]
    ELSE [q EXCEPT !.pc = "done"]

\* __init__.py:353-382: the rank intent, up to the await of line 382
RankStage(q) ==
    LET data == q.data.rank_data
    IN IF data.kind = "none" THEN LimitStage(q)
       ELSE [q EXCEPT !.rank = IF data.kind = "reset" THEN 0
                                ELSE IF data.increase_by # 0
                                     THEN Max(q.rank + data.increase_by, 0)
                                ELSE q.rank,
                      !.pc = "intent_save_user"]

\* __init__.py:292-338: the ignore intent, up to its first await (308 or 338)
IgnoreStage(q) ==
    LET data == q.data.ignore_data
        until == IF data.seconds # None /\ data.seconds # 0
                 THEN q.now + Sec(data.seconds) ELSE None
    IN IF data = NoIgnore THEN RankStage(q)
       ELSE IF data.level = "endpoint"
         THEN [q EXCEPT !.endpoint.ignore_times = data.times,
                        !.endpoint.ignore_until = until,
                        !.pc = "intent_save_endpoint"]
       ELSE IF data.level = "user"
         THEN [q EXCEPT !.user_endpoint.ignore_times = data.times,
                        !.user_endpoint.ignore_until = until,
                        !.user_endpoint.hits =
                            IF data.count_this /\ Contains(q.user_endpoint.hits, q.now)
                            THEN Remove(q.user_endpoint.hits, q.now)
                            ELSE q.user_endpoint.hits,
                        !.pc = "intent_save_user_endpoint"]
       ELSE RankStage(q)

\* BlockStage without the pop of line 207
BlockStage_no_pop(q) ==
    IF q.rule = NoRule THEN [q EXCEPT !.pc = "save_user_endpoint"]
    ELSE IF ~(q.rule.delay # None /\ site.no_block_delay)
      THEN [q EXCEPT !.user_endpoint.blocked_by_rule = q.rule,
                     !.user_endpoint.blocked_at = q.now,
                     !.pc = "save_user_endpoint"]
    ELSE [q EXCEPT !.pc = "save_user_endpoint"]

\* __init__.py:189-207: block or pop, up to the await of line 210
BlockStage(q) ==
    IF q.rule = NoRule THEN [q EXCEPT !.pc = "save_user_endpoint"]
    ELSE IF ~(q.rule.delay # None /\ site.no_block_delay)
      THEN [q EXCEPT !.user_endpoint.blocked_by_rule = q.rule,
                     !.user_endpoint.blocked_at = q.now,
                     !.pc = "save_user_endpoint"]
    ELSE [q EXCEPT !.user_endpoint.hits = DropLast(q.user_endpoint.hits),
                   !.pc = "save_user_endpoint"]

\* __init__.py:155-158
SelectRules(ranks, rank) ==
    IF rank >= Len(ranks) THEN ranks[Len(ranks)] ELSE ranks[rank + 1]

\* Promote without the min of line 175
Promote_unbounded(rank, ranks) == rank + 1

\* __init__.py:172-176: the rank after an automatic promotion
Promote(rank, ranks) == Min(rank + 1, Len(ranks))

\* __init__.py:146-153, 226-233: raise RateLimitedError
Raise(q, where, rule, limited_at, option, t) ==
    [q EXCEPT !.pc = "done", !.raised = "RateLimitedError", !.raised_at = where,
              !.t_raise = t,
              !.limited_for = LimitedFor(rule, q.user_endpoint, limited_at, option, t),
              !.error_type = ErrorType(rule)]

\* Evaluate that saves after a time-based ignore as after a count-based one
Evaluate_saves_time_ignore(q, t) ==
    LET rules == SelectRules(site.ranks, q.rank)
        hits == Append(q.user_endpoint.hits, q.now)
        appended == [q.user_endpoint EXCEPT !.hits = hits]
        signal == get_exceeded_rule(rules, q.endpoint, appended, Group(q.uid), t)
        q1 == [q EXCEPT !.rules = rules, !.signal = signal]
    IN IF signal.kind = "IgnoreByCount" /\ signal.context = "user"
         THEN [q1 EXCEPT !.user_endpoint.hits = <<>>,
                         !.user_endpoint.ignore_times = q.user_endpoint.ignore_times - 1,
                         !.pc = "ignore_save"]
       ELSE IF signal.kind = "IgnoreByCount"
         THEN [q1 EXCEPT !.user_endpoint.hits = <<>>,
                         !.endpoint.ignore_times = q.endpoint.ignore_times - 1,
                         !.pc = "ignore_save"]
       ELSE IF signal.kind = "IgnoreByTime"
         THEN [q1 EXCEPT !.user_endpoint.hits = <<>>, !.pc = "ignore_save"]
       ELSE LET q2 == [q1 EXCEPT !.rule = signal.rule,
                                 !.user_endpoint.hits = LastSlice(hits, get_max_hits(rules))]
            IN IF signal.rule # NoRule /\ signal.rule.increase_rank
               THEN [q2 EXCEPT !.rank = Promote(q.rank, site.ranks), !.pc = "save_user"]
               ELSE BlockStage(q2)

\* __init__.py:160-176 and 235-255: append, evaluate, trim, up to the next await
Evaluate(q, t) ==
    LET rules == SelectRules(site.ranks, q.rank)
        hits == Append(q.user_endpoint.hits, q.now)
        appended == [q.user_endpoint EXCEPT !.hits = hits]
        signal == get_exceeded_rule(rules, q.endpoint, appended, Group(q.uid), t)
        q1 == [q EXCEPT !.rules = rules, !.signal = signal]
    IN IF signal.kind = "IgnoreByCount" /\ signal.context = "user"
         THEN [q1 EXCEPT !.user_endpoint.hits = <<>>,
                         !.user_endpoint.ignore_times = q.user_endpoint.ignore_times - 1,
                         !.pc = "ignore_save"]
       ELSE IF signal.kind = "IgnoreByCount"
         THEN [q1 EXCEPT !.user_endpoint.hits = <<>>,
                         !.endpoint.ignore_times = q.endpoint.ignore_times - 1,
                         !.pc = "ignore_save"]
       ELSE IF signal.kind = "IgnoreByTime"
         THEN [q1 EXCEPT !.user_endpoint.hits = <<>>, !.pc = "handler"]
       ELSE LET q2 == [q1 EXCEPT !.rule = signal.rule,
                                 !.user_endpoint.hits = LastSlice(hits, get_max_hits(rules))]
            IN IF signal.rule # NoRule /\ signal.rule.increase_rank
               THEN [q2 EXCEPT !.rank = Promote(q.rank, site.ranks), !.pc = "save_user"]
               ELSE BlockStage(q2)

\* The handler raised, and the record is saved again with the hit left in
HandlerRaised_keeps_hit(q, exc) ==
    IF IsInstance(exc, {"HTTPException"}) /\ "HTTPException" \notin site.no_hit_on_exceptions
      THEN [q EXCEPT !.pc = "done", !.raised = exc, !.raised_at = "handler"]
    ELSE IF IsInstance(exc, site.no_hit_on_exceptions) /\ Contains(q.user_endpoint.hits, q.now)
      THEN [q EXCEPT !.raised = exc, !.raised_at = "handler", !.pc = "revert_save"]
    ELSE [q EXCEPT !.pc = "done", !.raised = exc, !.raised_at = "handler"]

\* The handler raised, and the limit intent is applied all the same
HandlerRaised_applies_limit(q, exc) ==
    [LimitStage(q) EXCEPT !.raised = exc, !.raised_at = "handler"]

\* __init__.py:263-277: the handler raised an exception of class exc
HandlerRaised(q, exc) ==
    IF IsInstance(exc, {"HTTPException"}) /\ "HTTPException" \notin site.no_hit_on_exceptions
      THEN [q EXCEPT !.pc = "done", !.raised = exc, !.raised_at = "handler"]
    ELSE IF IsInstance(exc, site.no_hit_on_exceptions) /\ Contains(q.user_endpoint.hits, q.now)
      THEN [q EXCEPT !.user_endpoint.hits = Remove(q.user_endpoint.hits, q.now),
                     !.raised = exc, !.raised_at = "handler", !.pc = "revert_save"]
    ELSE [q EXCEPT !.pc = "done", !.raised = exc, !.raised_at = "handler"]

Wrote(q, what) == [q EXCEPT !.writes = q.writes \cup {what}]

\* __init__.py:257-259: an activation that goes on to the yield makes its
\* context and sets it, in the same step (no await lies between)
Bound(slots, r, q) == IF q.pc = "handler" THEN ContextVar_set(slots, r, r) ELSE slots

\* ----------------------------------------------------------------- actions

\* How long and how many requests a run of the site is followed
Horizon == IF site = Aging THEN AgingTime ELSE MaxTime
Quota ==
    IF site = Aging THEN AgingRequests
    ELSE IF site = Grouped THEN FoundRequests
    ELSE MaxRequests

\* Number of requests that have arrived so far
Arrived == started["U1"] + started["U2"]

\* A request that has reached the end of dependency() returns at once
NoneDone == \A r \in Reqs : req[r].pc # "done"

\* The places where a request is about to read util.utcnow() again
\* (endpoint.py:27 and util.py:36 after line 133, error.py:37 after line 210)
ReadsClockNext(q) ==
    \/ q.pc = "get_endpoint"
    \/ q.pc = "save_user_endpoint" /\ q.rule # NoRule /\ q.rule.delay # None

\* The clock advances while a request waits at an await.  Time is observable
\* only where the clock is read, so it is advanced right before a read.
Tick ==
    /\ NoneDone
    /\ clock < Horizon
    /\ \E r \in Reqs : ReadsClockNext(req[r])
    /\ clock' = clock + 1
    /\ UNCHANGED <<site, ranking, ustore, estore, req, started, eventful, config, made, slot>>

\* __init__.py:94-110: a request of identity u arrives, d ticks after the last
\* reading of the clock, and reads the clock; two requests never read the
\* same instant.  The server runs it in the execution context an earlier
\* request ran in or in a new one, in which the ContextVar is not set
Start(r, u, d) ==
    /\ NoneDone
    /\ req[r].pc = "idle"
    /\ \A r2 \in Reqs : r2 < r => req[r2].pc # "idle"
    /\ Arrived < Quota
    /\ clock + d <= Horizon
    /\ clock' = clock + d
    /\ started' = [started EXCEPT ![u] = started[u] + 1]
    /\ req' = [req EXCEPT ![r] = [IdleRequest EXCEPT !.pc = "get_user", !.uid = u,
                                                     !.nth = started[u] + 1,
                                                     !.now = clock + d]]
    /\ slot' \in {slot, ContextVar_reset(slot, r)}
    /\ UNCHANGED <<site, ranking, ustore, estore, eventful, config, made>>

\* __init__.py:112-114: await ranking.get_user (ranking/redis.py:35-41)
GetUser(r) ==
    LET q == req[r]
        found == get_user(ranking, q.uid)
        rank == IF found # None THEN found ELSE ContextRank(q.uid)
    IN /\ NoneDone
       /\ q.pc = "get_user"
       /\ req' = [req EXCEPT ![r] = [q EXCEPT !.rank = rank, !.loaded_rank = rank,
                                              !.pc = "get_user_endpoint"]]
       /\ UNCHANGED <<clock, site, ranking, ustore, estore, started, eventful, config, made, slot>>

\* __init__.py:130-132: await store.get_user_endpoint (store/redis.py:48-61)
GetUserEndpoint(r) ==
    LET q == req[r]
    IN /\ NoneDone
       /\ q.pc = "get_user_endpoint"
       /\ req' = [req EXCEPT ![r] = [q EXCEPT !.user_endpoint = ustore[q.uid],
                                              !.loaded = ustore[q.uid],
                                              !.pc = "get_endpoint"]]
       /\ UNCHANGED <<clock, site, ranking, ustore, estore, started, eventful, config, made, slot>>

\* __init__.py:133-176: await store.get_endpoint (store/redis.py:32-39), the
\* block check, and the evaluation up to the next await
GetEndpoint(r) ==
    LET q == [req[r] EXCEPT !.endpoint = estore, !.loaded_global = estore,
                            !.t_check = clock]
    IN /\ NoneDone
       /\ req[r].pc = "get_endpoint"
       /\ req' = [req EXCEPT ![r] =
                     IF blocked(q.user_endpoint, clock)
                     THEN Raise(q, "block_check", q.user_endpoint.blocked_by_rule,
                                q.user_endpoint.blocked_at, FALSE, clock)
                     ELSE Evaluate(q, clock)]
       /\ slot' = Bound(slot, r, req'[r])
       /\ UNCHANGED <<clock, site, ranking, ustore, estore, started, eventful, config, made>>

\* __init__.py:176-207: await ranking.save_user (ranking/redis.py:28-33), then
\* block or pop
SaveUser(r) ==
    LET q == req[r]
    IN /\ NoneDone
       /\ q.pc = "save_user"
       /\ ranking' = save_user(ranking, User(q.uid, q.rank))
       /\ req' = [req EXCEPT ![r] = BlockStage(Wrote(q, "ranking"))]
       /\ UNCHANGED <<clock, site, ustore, estore, started, eventful, config, made, slot>>

\* __init__.py:210-233: await store.save_user_endpoint (store/redis.py:63-70),
\* then the delay error or the hand-over to the handler
SaveUserEndpoint(r) ==
    LET q == [Wrote(req[r], "local") EXCEPT !.presaved = TRUE,
                                            !.saved = req[r].user_endpoint]
    IN /\ NoneDone
       /\ req[r].pc = "save_user_endpoint"
       /\ ustore' = [ustore EXCEPT ![q.uid] = q.user_endpoint]
       /\ req' = [req EXCEPT ![r] =
                     IF q.rule # NoRule /\ q.rule.delay # None
                     THEN Raise(q, "evaluation", q.rule, q.now, site.no_block_delay, clock)
                     ELSE [q EXCEPT !.pc = "handler"]]
       /\ slot' = Bound(slot, r, req'[r])
       /\ UNCHANGED <<clock, site, ranking, estore, started, eventful, config, made>>

\* __init__.py:249-255: the save after an IgnoreByCount signal
IgnoreSave(r) ==
    LET q == req[r]
    IN /\ NoneDone
       /\ q.pc = "ignore_save"
       /\ IF q.signal.context = "user"
          THEN /\ ustore' = [ustore EXCEPT ![q.uid] = q.user_endpoint]
               /\ req' = [req EXCEPT ![r] = [Wrote(q, "local") EXCEPT !.pc = "handler"]]
               /\ UNCHANGED estore
          ELSE /\ estore' = q.endpoint
               /\ req' = [req EXCEPT ![r] = [Wrote(q, "global") EXCEPT !.pc = "handler"]]
               /\ UNCHANGED ustore
       /\ slot' = Bound(slot, r, req'[r])
       /\ UNCHANGED <<clock, site, ranking, started, eventful, config, made>>

\* __init__.py:257-292: the wrapped handler runs (yield), makes its context
\* calls and returns or raises
Handler(r, b) ==
    LET ctx == require_ratelimit_context(slot, r)
        called == [req EXCEPT ![ctx].data = b.data]
        q == [called[r] EXCEPT !.handler_ran = TRUE, !.obtained = ctx, !.asked = b.data]
        plain == b = Behaviour(EmptyContext, "")
    IN /\ NoneDone
       /\ req[r].pc = "handler"
       /\ plain \/ eventful < MaxEventful
       /\ eventful' = IF plain THEN eventful ELSE eventful + 1
       /\ req' = [called EXCEPT ![r] = IF b.exc # "" THEN HandlerRaised(q, b.exc)
                                       ELSE IgnoreStage(q)]
       /\ slot' = IF b.exc # "" THEN slot ELSE ContextVar_reset(slot, r)
       /\ UNCHANGED <<clock, site, ranking, ustore, estore, started, config, made>>

\* __init__.py:276-277: the save that reverts the hit, then re-raise
RevertSave(r) ==
    LET q == req[r]
    IN /\ NoneDone
       /\ q.pc = "revert_save"
       /\ ustore' = [ustore EXCEPT ![q.uid] = q.user_endpoint]
       /\ req' = [req EXCEPT ![r] = [Wrote(q, "local") EXCEPT !.pc = "done"]]
       /\ UNCHANGED <<clock, site, ranking, estore, started, eventful, config, made, slot>>

\* __init__.py:308-312: await store.save_endpoint of the ignore intent
IntentSaveEndpoint(r) ==
    LET q == Wrote(req[r], "global")
        data == q.data.ignore_data
    IN /\ NoneDone
       /\ req[r].pc = "intent_save_endpoint"
       /\ estore' = q.endpoint
       /\ req' = [req EXCEPT ![r] =
                     IF data.count_this /\ Contains(q.user_endpoint.hits, q.now)
                     THEN [q EXCEPT !.user_endpoint.hits = Remove(q.user_endpoint.hits, q.now),
                                    !.pc = "intent_save_user_endpoint"]
                     ELSE RankStage(q)]
       /\ UNCHANGED <<clock, site, ranking, ustore, started, eventful, config, made, slot>>

\* __init__.py:312 and 338: await store.save_user_endpoint of the ignore intent
IntentSaveUserEndpoint(r) ==
    LET q == req[r]
    IN /\ NoneDone
       /\ q.pc = "intent_save_user_endpoint"
       /\ ustore' = [ustore EXCEPT ![q.uid] = q.user_endpoint]
       /\ req' = [req EXCEPT ![r] = RankStage(Wrote(q, "local"))]
       /\ UNCHANGED <<clock, site, ranking, estore, started, eventful, config, made, slot>>

\* __init__.py:382: await ranking.save_user of the rank intent
IntentSaveUser(r) ==
    LET q == req[r]
    IN /\ NoneDone
       /\ q.pc = "intent_save_user"
       /\ ranking' = save_user(ranking, User(q.uid, q.rank))
       /\ req' = [req EXCEPT ![r] = LimitStage(Wrote(q, "ranking"))]
       /\ UNCHANGED <<clock, site, ustore, estore, started, eventful, config, made, slot>>

\* __init__.py:420: await store.save_user_endpoint of the limit intent
IntentSaveLimit(r) ==
    LET q == req[r]
    IN /\ NoneDone
       /\ q.pc = "intent_save_limit"
       /\ ustore' = [ustore EXCEPT ![q.uid] = q.user_endpoint]
       /\ req' = [req EXCEPT ![r] = [Wrote(q, "local") EXCEPT !.pc = "done"]]
       /\ UNCHANGED <<clock, site, ranking, estore, started, eventful, config, made, slot>>

\* __init__.py:146, 226, 269, 277, 422: dependency() raises or returns; its
\* locals are gone
Return(r) ==
    /\ req[r].pc = "done"
    /\ req' = [req EXCEPT ![r] = IdleRequest]
    /\ UNCHANGED <<clock, site, ranking, ustore, estore, started, eventful, config, made, slot>>

\* Requests of one identity overlap freely
Next ==
    \/ Tick
    \/ \E r \in Reqs, u \in OverlapUsers, d \in 1..MaxTime : Start(r, u, d)
    \/ \E r \in Reqs : GetUser(r)
    \/ \E r \in Reqs : GetUserEndpoint(r)
    \/ \E r \in Reqs : GetEndpoint(r)
    \/ \E r \in Reqs : SaveUser(r)
    \/ \E r \in Reqs : SaveUserEndpoint(r)
    \/ \E r \in Reqs : IgnoreSave(r)
    \/ \E r \in Reqs, b \in Behaviours : Handler(r, b)
    \/ \E r \in Reqs : RevertSave(r)
    \/ \E r \in Reqs : IntentSaveEndpoint(r)
    \/ \E r \in Reqs : IntentSaveUserEndpoint(r)
    \/ \E r \in Reqs : IntentSaveUser(r)
    \/ \E r \in Reqs : IntentSaveLimit(r)
    \/ \E r \in Reqs : Return(r)

OverlapInit == Init /\ site \in OverlapSites

Spec == OverlapInit /\ [][Next]_vars

\* One request at a time: a request arrives when the one before has returned
AllIdle == \A r \in Reqs : req[r].pc = "idle"

SeqNext ==
    \/ Tick
    \/ \E r \in Reqs, u \in Users, d \in 1..MaxTime : AllIdle /\ Start(r, u, d)
    \/ \E r \in Reqs : GetUser(r)
    \/ \E r \in Reqs : GetUserEndpoint(r)
    \/ \E r \in Reqs : GetEndpoint(r)
    \/ \E r \in Reqs : SaveUser(r)
    \/ \E r \in Reqs : SaveUserEndpoint(r)
    \/ \E r \in Reqs : IgnoreSave(r)
    \/ \E r \in Reqs, b \in Behaviours : Handler(r, b)
    \/ \E r \in Reqs : RevertSave(r)
    \/ \E r \in Reqs : IntentSaveEndpoint(r)
    \/ \E r \in Reqs : IntentSaveUserEndpoint(r)
    \/ \E r \in Reqs : IntentSaveUser(r)
    \/ \E r \in Reqs : IntentSaveLimit(r)
    \/ \E r \in Reqs : Return(r)

SeqSpec == Init /\ [][SeqNext]_vars

\* Sequential plain requests of one identity on the site Aging
AgingInit ==
    /\ clock = 0
    /\ site = Aging
    /\ ranking = {}
    /\ ustore = [u \in Users |-> DefaultEndpoint]
    /\ estore = DefaultEndpoint
    /\ req = [r \in Reqs |-> IdleRequest]
    /\ started = [u \in Users |-> 0]
    /\ eventful = 0
    /\ config = Configured
    /\ made = NoRuleCall
    /\ slot = [r \in Reqs |-> NotSet]

AgingNext ==
    \/ Tick
    \/ \E r \in Reqs, d \in 1..AgingTime : AllIdle /\ Start(r, "U1", d)
    \/ \E r \in Reqs : GetUser(r)
    \/ \E r \in Reqs : GetUserEndpoint(r)
    \/ \E r \in Reqs : GetEndpoint(r)
    \/ \E r \in Reqs : SaveUserEndpoint(r)
    \/ \E r \in Reqs : Handler(r, Behaviour(EmptyContext, ""))
    \/ \E r \in Reqs : Return(r)

AgingSpec == AgingInit /\ [][AgingNext]_vars

\* Requests that find records in the stores: the local and the global record
\* of the endpoint as some earlier traffic left them, and the identity as the
\* ranking store returns it for the id
FoundLocal ==
    {Endpoint(h, n, t, None, NoRule) :
        h \in {<<>>, <<2>>, <<0, 2>>, <<1, 2>>}, n \in {None, 0, 1}, t \in {None, 1, 4}}

FoundGlobal ==
    {Endpoint(<<>>, n, t, None, NoRule) : n \in {None, 0, 1}, t \in {None, 1, 4}}

FoundRanking ==
    {{}} \cup {{[key |-> key_maker(IdText(u)), value |-> User(u, k)]} :
                  u \in Users, k \in {0, 1, 3}}

FoundInit ==
    /\ clock = 2
    /\ site = Grouped
    /\ ranking \in FoundRanking
    /\ \E e \in FoundLocal : ustore = [u \in Users |-> e]
    /\ estore \in FoundGlobal
    /\ req = [r \in Reqs |-> IdleRequest]
    /\ started = [u \in Users |-> 0]
    /\ eventful = 0
    /\ config = Configured
    /\ made = NoRuleCall
    /\ slot = [r \in Reqs |-> NotSet]

FoundNext ==
    \/ Tick
    \/ \E r \in Reqs, u \in Users, d \in 1..MaxTime : AllIdle /\ Start(r, u, d)
    \/ \E r \in Reqs : GetUser(r)
    \/ \E r \in Reqs : GetUserEndpoint(r)
    \/ \E r \in Reqs : GetEndpoint(r)
    \/ \E r \in Reqs : SaveUser(r)
    \/ \E r \in Reqs : SaveUserEndpoint(r)
    \/ \E r \in Reqs : IgnoreSave(r)
    \/ \E r \in Reqs : Handler(r, Behaviour(EmptyContext, ""))
    \/ \E r \in Reqs : Return(r)

FoundSpec == FoundInit /\ [][FoundNext]_vars

\* Overlapping requests of one identity on a site whose rule looks at the gap
\* between the last two hits; the handlers return without intents.  The
\* records of the endpoint hold no hits yet and the ignore counters some
\* earlier intent left
RaceSites == {PacedBlocking}
RaceCounters == {None, 1, 2}

RaceInit ==
    /\ clock = 0
    /\ site \in RaceSites
    /\ ranking = {}
    /\ \E n \in RaceCounters :
           ustore = [u \in Users |-> Endpoint(<<>>, n, None, None, NoRule)]
    /\ \E n \in RaceCounters : estore = Endpoint(<<>>, n, None, None, NoRule)
    /\ req = [r \in Reqs |-> IdleRequest]
    /\ started = [u \in Users |-> 0]
    /\ eventful = 0
    /\ config = Configured
    /\ made = NoRuleCall
    /\ slot = [r \in Reqs |-> NotSet]

RaceNext ==
    \/ Tick
    \/ \E r \in Reqs, u \in OverlapUsers, d \in 1..MaxTime : Start(r, u, d)
    \/ \E r \in Reqs : GetUser(r)
    \/ \E r \in Reqs : GetUserEndpoint(r)
    \/ \E r \in Reqs : GetEndpoint(r)
    \/ \E r \in Reqs : SaveUser(r)
    \/ \E r \in Reqs : SaveUserEndpoint(r)
    \/ \E r \in Reqs : IgnoreSave(r)
    \/ \E r \in Reqs : Handler(r, Behaviour(EmptyContext, ""))
    \/ \E r \in Reqs : Return(r)

RaceSpec == RaceInit /\ [][RaceNext]_vars

\* The awaits of dependency() other than the yield
Awaits ==
    {"get_user", "get_user_endpoint", "get_endpoint", "save_user", "save_user_endpoint",
     "ignore_save", "revert_save", "intent_save_endpoint", "intent_save_user_endpoint",
     "intent_save_user", "intent_save_limit"}

\* The request is cancelled while dependency() waits at an await: the
\* await raises CancelledError, the awaited call has not taken effect, no
\* except clause of dependency() catches it and nothing more of it runs
Cancel(r) ==
    /\ NoneDone
    /\ req[r].pc \in Awaits
    /\ req' = [req EXCEPT ![r] = [req[r] EXCEPT !.pc = "done", !.raised = "CancelledError",
                                                !.raised_at = req[r].pc]]
    /\ UNCHANGED <<clock, site, ranking, ustore, estore, started, eventful, config, made, slot>>

\* What a handler does in a run with cancellations: it returns, with or
\* without intents, or is cancelled after it set some
CancelBehaviours ==
    { Behaviour(EmptyContext, ""),
      Behaviour(limit(increase_rank(ignore_all_users(EmptyContext, None, 1, TRUE), 1), 1), ""),
      Behaviour(EmptyContext, "CancelledError"),
      Behaviour(limit(increase_rank(ignore_all_users(EmptyContext, None, 1, TRUE), 1), 1),
                "CancelledError") }

\* One request that finds records in the stores and may be cancelled
CancelNext ==
    \/ Tick
    \/ \E r \in Reqs, u \in Users, d \in 1..MaxTime : AllIdle /\ Start(r, u, d)
    \/ \E r \in Reqs : GetUser(r)
    \/ \E r \in Reqs : GetUserEndpoint(r)
    \/ \E r \in Reqs : GetEndpoint(r)
    \/ \E r \in Reqs : SaveUser(r)
    \/ \E r \in Reqs : SaveUserEndpoint(r)
    \/ \E r \in Reqs : IgnoreSave(r)
    \/ \E r \in Reqs, b \in CancelBehaviours : Handler(r, b)
    \/ \E r \in Reqs : IntentSaveEndpoint(r)
    \/ \E r \in Reqs : IntentSaveUserEndpoint(r)
    \/ \E r \in Reqs : IntentSaveUser(r)
    \/ \E r \in Reqs : IntentSaveLimit(r)
    \/ \E r \in Reqs : Cancel(r)
    \/ \E r \in Reqs : Return(r)

CancelSpec == FoundInit /\ [][CancelNext]_vars

\* ------------------------------------------- rule construction, as a run

\* No request has arrived yet
NoTraffic ==
    /\ clock = 0
    /\ ranking = {}
    /\ ustore = [u \in Users |-> DefaultEndpoint]
    /\ estore = DefaultEndpoint
    /\ req = [r \in Reqs |-> IdleRequest]
    /\ started = [u \in Users |-> 0]
    /\ eventful = 0
    /\ slot = [r \in Reqs |-> NotSet]

RuleInputs ==
    {LimitRule(h, w, d, b, TRUE, g) :
        h \in RuleNumbers, w \in RuleNumbers, d \in RuleNumbers,
        b \in BlockTimes, g \in RuleGroups}

\* rule.py:6-69: the dataclass sets the fields and runs __post_init__
Construct ==
    /\ made.result = ""
    /\ made' = RuleCall(made.self, post_init(made.self))
    /\ UNCHANGED <<clock, site, ranking, ustore, estore, req, started, eventful, config, slot>>

RuleInit ==
    /\ NoTraffic
    /\ site = Open
    /\ config = Configured
    /\ made \in {RuleCall(self, "") : self \in RuleInputs}

RuleSpec == RuleInit /\ [][Construct]_vars

\* ------------------------------------------------------- setup, as a run

SetupInputs ==
    {SetupArgs(k, s, f, t, b) :
        k \in {"RedisRanking", "dict"}, s \in {"RedisStore", "dict"},
        f \in {"callable", "str"}, t \in {ENDPOINT_TTL, 60},
        b \in {"REASON_BUILDER", "custom"}}

\* __init__.py:35-78: a call of setup_ratelimit
SetupCall(args) ==
    /\ config.calls < MaxSetupCalls
    /\ config' = [setup_ratelimit(config, args) EXCEPT !.guard = ""]
    /\ UNCHANGED <<clock, site, ranking, ustore, estore, req, started, eventful, made, slot>>

\* __init__.py:94-101: a request reaches the guard of dependency()
DependencyCall ==
    /\ config.guard = ""
    /\ config' = [config EXCEPT !.guard = dependency_guard]
    /\ UNCHANGED <<clock, site, ranking, ustore, estore, req, started, eventful, made, slot>>

SetupInit ==
    /\ NoTraffic
    /\ site = Open
    /\ config = Unconfigured
    /\ made = NoRuleCall

SetupNext ==
    \/ \E args \in SetupInputs : SetupCall(args)
    \/ DependencyCall

SetupSpec == SetupInit /\ [][SetupNext]_vars

\* ------------------------------------------------------------ properties

Last(h) == h[Len(h)]

Checked(q) == q.t_check # None
Finished(q) == q.pc = "done"
Admitted(q) == q.handler_ran /\ q.raised = ""
PlainSoFar == eventful = 0

\* The only rule of the only bundle of a site with one rank and one rule
OnlyRule == site.ranks[1][1]

\* C1: a request is rejected at the block check if and only if the record it
\* loaded has blocked_by_rule set and blocked_at + block_time lies after the
\* clock reading of the check; a request rejected there has appended no hit,
\* saved nothing and did not reach the handler.
C1_BlockCheck ==
    \A r \in Reqs :
        LET q == req[r]
            was_blocked ==
                /\ q.loaded.blocked_by_rule # NoRule
                /\ q.loaded.blocked_at + Sec(q.loaded.blocked_by_rule.block_time) > q.t_check
        IN Checked(q) =>
             /\ (q.raised_at = "block_check") <=> was_blocked
             /\ q.raised_at = "block_check" =>
                  /\ Finished(q)
                  /\ q.raised = "RateLimitedError"
                  /\ q.user_endpoint = q.loaded
                  /\ q.writes = {}
                  /\ ~q.handler_ran
                  /\ ustore[q.uid] = q.loaded

C1_Witness ==
    \E r \in Reqs : req[r].raised_at = "block_check" /\ req[r].loaded.hits # <<>>

C3_HitsRuleFires ==
    \A r \in Reqs :
        LET q == req[r]
            hits == Append(q.loaded.hits, q.now)
            in_window == {i \in 1..Len(hits) : hits[i] >= q.t_check - Sec(q.rules[1].batch_time)}
        IN ( /\ Checked(q)
             /\ q.signal.kind = "rule"
             /\ Len(q.rules) = 1
             /\ q.rules[1].hits # None )
           => /\ (q.rule = q.rules[1]) <=> (Cardinality(in_window) >= q.rules[1].hits)
              /\ q.rule # NoRule => Len(hits) >= q.rules[1].hits
              /\ q.rule = NoRule \/ q.rule = q.rules[1]

C3_Witness ==
    \E r \in Reqs :
        /\ site = Burst
        /\ req[r].rule = OnlyRule
        /\ req[r].nth = 2
        /\ Len(req[r].loaded.hits) = 1

\* C4: when a delay rule fires and no_block_delay is true the request fails
\* with RateLimitedError, error_type ratelimit.delay_exceeded and
\* limited_for = ceil(last retained hit + delay - clock reading of the error);
\* the handler does not run; the record the request saved is not blocked and
\* does not hold the request's timestamp; a later request arriving at least
\* delay after the last retained hit is admitted.
C4_DelayWithoutBlock ==
    \A r \in Reqs :
        LET q == req[r]
        IN /\ ( /\ Finished(q)
                /\ site.no_block_delay
                /\ q.rule # NoRule
                /\ q.rule.delay # None )
              => /\ q.raised = "RateLimitedError"
                 /\ q.raised_at = "evaluation"
                 /\ q.error_type = "ratelimit.delay_exceeded"
                 /\ q.limited_for =
                      CeilSeconds(Last(q.user_endpoint.hits) + Sec(q.rule.delay) - q.t_raise)
                 /\ ~q.handler_ran
                 /\ "local" \in q.writes
                 /\ ustore[q.uid] = q.user_endpoint
                 /\ q.user_endpoint.blocked_by_rule = q.loaded.blocked_by_rule
                 /\ ~blocked(q.user_endpoint, q.t_raise)
                 /\ ~Contains(q.user_endpoint.hits, q.now)
                 /\ q.user_endpoint.hits = LastSlice(q.loaded.hits, 1)
           /\ ( /\ Finished(q)
                /\ site = Paced
                /\ PlainSoFar
                /\ q.loaded.hits # <<>>
                /\ q.now - Last(q.loaded.hits) >= Sec(OnlyRule.delay) )
              => Admitted(q)

C4_Witness ==
    \E r \in Reqs :
        /\ Finished(req[r])
        /\ site = Paced
        /\ req[r].raised_at = "evaluation"
        /\ req[r].limited_for = 1

C4_WitnessLater ==
    \E r \in Reqs :
        /\ Finished(req[r])
        /\ site = Paced
        /\ req[r].nth = 3
        /\ Admitted(req[r])
        /\ Len(req[r].loaded.hits) = 1

\* The end of the block a record carries
BlockEnd(e) == e.blocked_at + Sec(e.blocked_by_rule.block_time)

\* Request r saves the local record of its identity in this step
SavesLocal(r) ==
    /\ req[r].pc \notin {"idle", "done"}
    /\ req'[r] # req[r]
    /\ ustore'[req[r].uid] # ustore[req[r].uid]

\* C5: while a block saved on an identity's record is running, no save made by
\* another in-flight request from its own copy of the record removes or
\* shortens the persisted block, whatever the interleaving.
C5_BlockSurvivesSaves ==
    [][ \A r \in Reqs :
          ( /\ SavesLocal(r)
            /\ blocked(ustore[req[r].uid], clock)
            /\ req[r].user_endpoint.blocked_at # ustore[req[r].uid].blocked_at )
          => /\ ustore'[req[r].uid].blocked_by_rule # NoRule
             /\ BlockEnd(ustore'[req[r].uid]) >= BlockEnd(ustore[req[r].uid]) ]_vars

\* The ranks saved so far for identity u, and the largest of a set of ranks
SavedRanks(u) == {e.value.rank : e \in {x \in ranking : x.value.unique_id = u}}
SetMax(S) == CHOOSE x \in S : \A y \in S : y <= x

\* C6: when a rule with increase_rank fires, the identity's rank becomes
\* min(rank + 1, len(ranks)) and is saved to the ranking store, and the
\* identity's following requests work with the new rank and are evaluated
\* under its bundle.
C6_PromotedRankApplies ==
    \A r \in Reqs :
        LET q == req[r]
        IN /\ ( /\ q.rule # NoRule
                /\ q.rule.increase_rank
                /\ "ranking" \in q.writes
                /\ ~q.handler_ran )
              => /\ q.rank = Min(q.loaded_rank + 1, Len(site.ranks))
                 /\ q.rank \in SavedRanks(q.uid)
           /\ ( /\ PlainSoFar
                /\ q.pc \notin {"idle", "get_user"}
                /\ "ranking" \notin q.writes
                /\ SavedRanks(q.uid) # {} )
              => /\ q.loaded_rank = SetMax(SavedRanks(q.uid))
                 /\ q.rules # <<>> =>
                      q.rules = SelectRules(site.ranks, SetMax(SavedRanks(q.uid)))

\* The evaluation of request q has chosen its bundle
Evaluated(q) == q.signal.kind # ""

\* The request's handler asked for a rank increase by a positive number
RaisedByIntent(q) ==
    /\ q.handler_ran
    /\ q.data.rank_data.kind = "increase"
    /\ q.data.rank_data.increase_by > 0

\* C7 as stated: the rank, in memory and as persisted, always lies in
\* [0, len(ranks)], and the bundle index used is a valid index of ranks.
C7_Original ==
    /\ \A r \in Reqs :
         /\ req[r].rank \in 0..Len(site.ranks)
         /\ Evaluated(req[r]) => \E i \in 1..Len(site.ranks) : req[r].rules = site.ranks[i]
    /\ \A e \in ranking : e.value.rank \in 0..Len(site.ranks)

\* C7 as amended: the rank, in memory and as persisted, is never negative;
\* it is at most len(ranks) after an automatic promotion and as long as no
\* handler has asked for a positive increase; a positive increase_by k adds k
\* with no upper limit; the bundle used is ranks[rank] when rank < len(ranks)
\* and the last bundle otherwise.
C7_Amended ==
    /\ \A r \in Reqs :
         LET q == req[r]
             promoted == Min(q.loaded_rank + 1, Len(site.ranks))
         IN /\ q.rank >= 0
            /\ ~RaisedByIntent(q) => q.rank <= Len(site.ranks)
            /\ (q.rule # NoRule /\ q.rule.increase_rank /\ ~q.handler_ran) => q.rank = promoted
            /\ ( /\ RaisedByIntent(q)
                 /\ q.raised = ""
                 /\ q.pc \in {"intent_save_user", "intent_save_limit", "done"} ) =>
                 q.rank \in {q.loaded_rank + q.data.rank_data.increase_by,
                             promoted + q.data.rank_data.increase_by}
            /\ Evaluated(q) =>
                 q.rules = site.ranks[Min(q.loaded_rank, Len(site.ranks) - 1) + 1]
    /\ \A e \in ranking : e.value.rank >= 0
    /\ eventful = 0 => \A e \in ranking : e.value.rank <= Len(site.ranks)

C7_Witness ==
    \E r \in Reqs :
        /\ RaisedByIntent(req[r])
        /\ req[r].rank > Len(site.ranks)
        /\ User(req[r].uid, req[r].rank) \in {e.value : e \in ranking}

C7_WitnessFloor ==
    \E r \in Reqs :
        /\ req[r].handler_ran
        /\ req[r].data.rank_data = RankData("increase", -1)
        /\ req[r].rank = 0
        /\ "ranking" \in req[r].writes
        /\ req[r].pc = "done"

\* C8: the local record left by a processed request holds at most
\* MaxHits(bundle applied to the request) hits, where MaxHits is the largest
\* rule.hits (2 for a delay rule) of the bundle and 0 for an empty bundle.
C8_HitsBounded ==
    \A r \in Reqs :
        LET q == req[r]
        IN (Finished(q) /\ Evaluated(q)) =>
             Len(ustore[q.uid].hits) <= get_max_hits(q.rules)

\* The handler of request q ran, set no intent and returned normally
PlainReturn(q) == Finished(q) /\ Admitted(q) /\ q.data = EmptyContext

\* C9 as stated: after a request whose handler runs and returns normally with
\* no intent set, whatever state the records were in when it arrived, the
\* local record holds the request's timestamp as its last hit.
C9_Original ==
    \A r \in Reqs :
        PlainReturn(req[r]) =>
            /\ ustore[req[r].uid].hits # <<>>
            /\ Last(ustore[req[r].uid].hits) = req[r].now

\* C9 as amended: the same, for a request that no ignore signal (by count or
\* by time, of the endpoint or of the identity) suppressed; the record is the
\* one the request saved before the handler ran.
C9_Amended ==
    \A r \in Reqs :
        LET q == req[r]
        IN (PlainReturn(q) /\ q.signal.kind = "rule") =>
             /\ "local" \in q.writes
             /\ q.user_endpoint.hits # <<>>
             /\ Last(q.user_endpoint.hits) = q.now
             /\ ustore[q.uid] = q.user_endpoint

C9_Witness ==
    \E r \in Reqs :
        /\ PlainReturn(req[r])
        /\ req[r].signal.kind = "rule"
        /\ req[r].loaded.blocked_by_rule # NoRule
        /\ Len(req[r].loaded.hits) >= 1
        /\ Last(ustore[req[r].uid].hits) = req[r].now

\* The handler of request q asked to ignore the identity for a number of
\* requests, this one included, and returned normally
IgnoredUserByCount(q) ==
    /\ Finished(q)
    /\ Admitted(q)
    /\ q.data.ignore_data.level = "authority"
    /\ q.data.ignore_data.times # None
    /\ q.data.ignore_data.count_this

\* C10: after a handler calls ignore_user(for_times=N, count_this=true) (or
\* ignore_hit(), N = 1) and returns normally, the request's hit is removed
\* from the local record and the local ignore_times is N.
C10_IgnoreUserApplied ==
    \A r \in Reqs :
        IgnoredUserByCount(req[r]) =>
            /\ ~Contains(ustore[req[r].uid].hits, req[r].now)
            /\ ustore[req[r].uid].ignore_times = req[r].data.ignore_data.times

\* The rule a limit intent builds for a block of block_time seconds
SyntheticRule(block_time) == LimitRule(1, 1, None, block_time, TRUE, AnyGroup)

\* The bundle the site gives to rank
BundleOf(rank) == site.ranks[Min(rank, Len(site.ranks) - 1) + 1]

\* The block time a limit intent of request q is to give
IntendedBlockTime(q) ==
    IF q.data.limit_data.for_seconds # None THEN q.data.limit_data.for_seconds
    ELSE IF BundleOf(q.loaded_rank) # <<>> THEN BundleOf(q.loaded_rank)[1].block_time
    ELSE DEFAULT_BLOCK_TIME

\* C11: when the handler calls limit(...) and returns normally the request is
\* not rejected, and afterwards the persisted local record is blocked by the
\* rule hits=1, batch_time=1 with blocked_at = the request's now and
\* block_time = for_seconds if given, else the block_time of the first rule of
\* the bundle, else DEFAULT_BLOCK_TIME; a request checked d later, d <
\* block_time, is rejected with limited_for = ceil(block_time - d).
C11_LimitIntent ==
    \A r \in Reqs :
        LET q == req[r]
            by == q.loaded.blocked_by_rule
        IN /\ (Finished(q) /\ Admitted(q) /\ q.data.limit_data.set) =>
                /\ "local" \in q.writes
                /\ ustore[q.uid].blocked_by_rule = SyntheticRule(IntendedBlockTime(q))
                /\ ustore[q.uid].blocked_at = q.now
           /\ ( /\ Checked(q)
                /\ by # NoRule
                /\ by = SyntheticRule(by.block_time)
                /\ q.t_check - q.loaded.blocked_at < Sec(by.block_time) ) =>
                /\ q.raised_at = "block_check"
                /\ ~q.handler_ran
                /\ q.limited_for =
                     CeilSeconds(Sec(by.block_time) - (q.t_raise - q.loaded.blocked_at))

C11_Witness ==
    \E r \in Reqs :
        /\ site = Paced
        /\ eventful = 1
        /\ req[r].raised_at = "block_check"
        /\ req[r].loaded.blocked_by_rule = SyntheticRule(2)
        /\ req[r].limited_for = 1

C11_WitnessDefault ==
    \E r \in Reqs :
        /\ site = Open
        /\ req[r].raised_at = "block_check"
        /\ req[r].loaded.blocked_by_rule = SyntheticRule(DEFAULT_BLOCK_TIME)
        /\ req[r].limited_for = DEFAULT_BLOCK_TIME - 1

\* The fields of a local record that an intent may set
IntentFields(e) == <<e.ignore_times, e.ignore_until, e.blocked_at, e.blocked_by_rule>>

\* Request r takes a step
Steps(r) == req[r].pc # "idle" /\ req'[r] # req[r]

\* C12: intents are applied only after a normal return: once a request has
\* raised (the handler's exception, or a rejection before the handler ran)
\* no step of it writes an ignore, rank or limit intent to the store or the
\* ranking store.
C12_IntentsOnlyOnReturn ==
    [][ \A r \in Reqs :
          (Steps(r) /\ req[r].raised # "") =>
              /\ estore' = estore
              /\ ranking' = ranking
              /\ IntentFields(ustore'[req[r].uid]) = IntentFields(ustore[req[r].uid])
              /\ ~req[r].handler_ran => ustore' = ustore ]_vars

C12_Witness ==
    \E r \in Reqs :
        /\ Finished(req[r])
        /\ req[r].raised = "ValueError"
        /\ req[r].data.limit_data.set
        /\ req[r].data.rank_data.kind = "increase"
        /\ "local" \in req[r].writes
        /\ ustore[req[r].uid].blocked_by_rule = NoRule

\* The handler of request q raised exc and the exception has propagated
HandlerFailed(q, exc) == Finished(q) /\ q.handler_ran /\ q.raised = exc

\* The evaluation counted request q: no ignore signal suppressed it
Counted(q) == q.signal.kind = "rule"

\* The hits request q saved before its handler ran
HitsBeforeHandler(q) == LastSlice(Append(q.loaded.hits, q.now), get_max_hits(q.rules))

C13_WitnessKept ==
    \E r \in Reqs :
        /\ HandlerFailed(req[r], "ValueError")
        /\ site = Paced
        /\ Last(ustore[req[r].uid].hits) = req[r].now

\* C14: an HTTP exception of the framework raised by the handler propagates
\* and the hit stays, unless the class of the raised exception is listed in
\* no_hit_on_exceptions: then the request's timestamp is removed from the
\* local hits and the record is saved again.
C14_HttpException ==
    \A r \in Reqs :
        LET q == req[r]
            e == ustore[q.uid]
        IN ( /\ Finished(q)
             /\ q.handler_ran
             /\ IsInstance(q.raised, {"HTTPException"})
             /\ Counted(q) ) =>
             /\ q.raised \in site.no_hit_on_exceptions => ~Contains(e.hits, q.now)
             /\ ~IsInstance(q.raised, site.no_hit_on_exceptions) => Last(e.hits) = q.now

\* The invariants of a rule: delay alone or hits and batch_time together,
\* every number given strictly positive, a list of groups not empty
RuleInvariants(self) ==
    /\ \/ self.delay # None /\ self.hits = None /\ self.batch_time = None
       \/ self.delay = None /\ self.hits # None /\ self.batch_time # None
    /\ self.delay # None => self.delay > 0
    /\ self.hits # None => self.hits > 0
    /\ self.batch_time # None => self.batch_time > 0
    /\ self.block_time > 0
    /\ self.affected_group # ListGroup({})

\* C15: the construction of a rule fails for every combination of arguments
\* that violates the invariants of a rule and succeeds for every combination
\* that satisfies them.
C15_RuleConstruction ==
    made.result \in {"ok", "ValueError"} =>
        (made.result = "ok" <=> RuleInvariants(made.self))

\* C16: every RateLimitedError the engine raises, at the block check or at the
\* evaluation of a delay rule with or without no_block_delay, has
\* limited_for >= 0, whatever time passed between the clock reading of the
\* request and the clock reading of the error's constructor.
C16_LimitedForNonNegative ==
    \A r \in Reqs :
        req[r].raised = "RateLimitedError" => req[r].limited_for >= 0

\* The handler of request q returned normally after
\* ignore_all_users(for_times=N, count_this=true); times holds N - 1
IgnoredAllByCount(q) ==
    /\ Finished(q)
    /\ Admitted(q)
    /\ q.data.ignore_data.level = "endpoint"
    /\ q.data.ignore_data.times # None
    /\ q.data.ignore_data.count_this

\* Request q found the global count ignore open / was suppressed by it
FoundCountOpen(q) == Finished(q) /\ q.loaded_global.ignore_times > 0
SuppressedByGlobalCount(q) ==
    /\ q.signal = Signal("IgnoreByCount", "endpoint", NoRule)
    /\ q.handler_ran
    /\ q.raised_at # "block_check"

\* No other ignore is in force for request q
NoOtherIgnore(q) ==
    /\ ~(q.loaded.ignore_times > 0)
    /\ q.loaded.ignore_until = None
    /\ q.loaded_global.ignore_until = None

\* Request q passed the block check, found the count used up and no other
\* ignore in force
UsedUp(q) ==
    /\ Finished(q)
    /\ Checked(q)
    /\ q.raised_at # "block_check"
    /\ ~FoundCountOpen(q)
    /\ NoOtherIgnore(q)

\* C17 as stated: after ignore_all_users(for_times=N, count_this=true) and a
\* normal return the global record holds ignore_times = N - 1 and the
\* request's hit is not in the local hits; every request that finds the count
\* open, from any identity, is suppressed by the global count ignore, and a
\* request that finds it used up is counted.
C17_Original ==
    \A r \in Reqs :
        LET q == req[r]
        IN /\ IgnoredAllByCount(q) =>
                /\ estore.ignore_times = q.data.ignore_data.times
                /\ ~Contains(ustore[q.uid].hits, q.now)
           /\ FoundCountOpen(q) => SuppressedByGlobalCount(q)
           /\ UsedUp(q) => Counted(q)

\* C17 as amended: the global record holds ignore_times = N - 1 and the hit
\* is not in the local hits; a request that finds the count open and passes
\* the block check is suppressed by the global count ignore, saves no hit and
\* lowers the count by one; a request rejected at the block check leaves the
\* count as it is; a request that passes the block check and finds the count
\* used up, with no other ignore in force, is counted.
C17_Amended ==
    \A r \in Reqs :
        LET q == req[r]
        IN /\ IgnoredAllByCount(q) =>
                /\ estore.ignore_times = q.data.ignore_data.times
                /\ ~Contains(ustore[q.uid].hits, q.now)
           /\ (FoundCountOpen(q) /\ q.raised_at # "block_check") =>
                /\ SuppressedByGlobalCount(q)
                /\ q.data.ignore_data.level # "endpoint" =>
                     estore.ignore_times = q.loaded_global.ignore_times - 1
                /\ q.data = EmptyContext => ustore[q.uid] = q.loaded
           /\ (FoundCountOpen(q) /\ q.raised_at = "block_check") =>
                /\ ~q.handler_ran
                /\ estore = q.loaded_global
           /\ UsedUp(q) => Counted(q)

\* A request of another identity was suppressed by a count that
\* ignore_all_users(for_times=2, count_this=true) had left at 1
C17_Witness ==
    \E r \in Reqs :
        /\ FoundCountOpen(req[r])
        /\ SuppressedByGlobalCount(req[r])
        /\ req[r].loaded_global.ignore_times = 1
        /\ estore.ignore_times = 0
        /\ req[r].uid = "U2"
        /\ started["U1"] = 1

\* The request after the suppressed one was counted
C17_WitnessCounted ==
    \E r \in Reqs :
        /\ UsedUp(req[r])
        /\ req[r].loaded_global.ignore_times = 0
        /\ req[r].nth = 2
        /\ Counted(req[r])

\* A handler that ignored with N = 2 has returned
C17_WitnessIntent ==
    \E r \in Reqs :
        /\ IgnoredAllByCount(req[r])
        /\ req[r].data.ignore_data.times = 1
        /\ Counted(req[r])

\* The rank request q had before its handler ran
RankBeforeHandler(q) ==
    IF q.rule # NoRule /\ q.rule.increase_rank
    THEN Min(q.loaded_rank + 1, Len(site.ranks))
    ELSE q.loaded_rank

\* Request q has applied the rank intent of its handler
RankIntentApplied(q) ==
    /\ q.handler_ran
    /\ q.raised = ""
    /\ q.data.rank_data.kind # "none"
    /\ q.pc \in {"intent_save_limit", "done"}

\* No rule of the site promotes, so only handlers change ranks
NoPromotion == \A i \in 1..Len(site.ranks) : \A j \in 1..Len(site.ranks[i]) :
    ~site.ranks[i][j].increase_rank

\* C18: after a handler that returned normally with a rank intent, reset has
\* set the identity's rank to 0 and increase_by k to max(rank + k, 0), the
\* identity is saved to the ranking store with that rank, and a later request
\* of that identity works with the saved rank.
C18_RankIntentApplies ==
    \A r \in Reqs :
        LET q == req[r]
        IN /\ RankIntentApplied(q) =>
                /\ q.data.rank_data.kind = "reset" => q.rank = 0
                /\ q.data.rank_data.kind = "increase" =>
                     q.rank = Max(RankBeforeHandler(q) + q.data.rank_data.increase_by, 0)
                /\ q.rank \in SavedRanks(q.uid)
           /\ ( /\ NoPromotion
                /\ q.pc \notin {"idle", "get_user"}
                /\ "ranking" \notin q.writes
                /\ SavedRanks(q.uid) # {} )
              => q.loaded_rank \in SavedRanks(q.uid)

\* Request q is processed at the instant it arrives
Instant(q) == q.t_check = q.now

\* Request q loaded the record left by requests at a and a + 4 s under
\* hits=2, batch_time=5, block_time=1: both hits, blocked at a + 4 s
LoadedAfterTwo(q) ==
    /\ Len(q.loaded.hits) = 2
    /\ q.loaded.hits[2] = q.loaded.hits[1] + Sec(4)
    /\ q.loaded.blocked_by_rule = OnlyRule
    /\ q.loaded.blocked_at = q.loaded.hits[2]

\* C19: with hits=2, batch_time=5, block_time=1 and requests of one identity
\* at t = 0, 4, 4.5 and 6, the third is rejected with limited_for = 1 and the
\* fourth is admitted; a request that arrives after blocked_at + block_time is
\* not rejected at the block check; a hits rule fires exactly when the hits
\* not older than batch_time, the request's own included, number at least
\* rule.hits.
C19_BlockExpiresHitsAge ==
    \A r \in Reqs :
        LET q == req[r]
            h == Append(q.loaded.hits, q.now)
            recent == {i \in 1..Len(h) : h[i] >= q.t_check - Sec(OnlyRule.batch_time)}
        IN /\ (Finished(q) /\ LoadedAfterTwo(q) /\ Instant(q)
                 /\ 2 * (q.now - q.loaded.hits[2]) = Sec(1)) =>
                /\ q.raised = "RateLimitedError"
                /\ q.raised_at = "block_check"
                /\ q.limited_for = 1
           /\ (Finished(q) /\ LoadedAfterTwo(q)
                 /\ q.now - q.loaded.hits[2] = Sec(2)) =>
                Admitted(q)
           /\ (Finished(q) /\ q.loaded.blocked_by_rule # NoRule
                 /\ q.now > q.loaded.blocked_at + Sec(q.loaded.blocked_by_rule.block_time)) =>
                q.raised_at # "block_check"
           /\ (Finished(q) /\ Counted(q)) =>
                (q.rule = OnlyRule <=> Cardinality(recent) >= OnlyRule.hits)

\* The fourth request, 6 s after the first and 2 s after the block, has been
\* admitted after the third was rejected
C19_Witness ==
    \E r \in Reqs :
        /\ Finished(req[r])
        /\ LoadedAfterTwo(req[r])
        /\ req[r].nth = 4
        /\ req[r].now - req[r].loaded.hits[2] = Sec(2)
        /\ Admitted(req[r])

\* The third request, half a second into the block, has been rejected
C19_WitnessRejected ==
    \E r \in Reqs :
        /\ Finished(req[r])
        /\ LoadedAfterTwo(req[r])
        /\ Instant(req[r])
        /\ req[r].nth = 3
        /\ 2 * (req[r].now - req[r].loaded.hits[2]) = Sec(1)
        /\ req[r].limited_for = 1

\* A request was admitted without the rule firing although the list held two
\* hits: the older one had aged out of the window
C19_WitnessAged ==
    \E r \in Reqs :
        /\ Finished(req[r])
        /\ Counted(req[r])
        /\ Len(req[r].loaded.hits) >= 1
        /\ req[r].rule = NoRule

\* Arguments setup_ratelimit has no reason to refuse
ValidSetupArgs(args) ==
    /\ args.ranking = "RedisRanking"
    /\ args.store = "RedisStore"
    /\ args.authentication_func = "callable"

\* C20: configuration happens once: a request that reaches the dependency
\* before any setup fails with the not-configured error (the ValueError of
\* line 101); the first setup_ratelimit call, given a ranking store, a store
\* and a callable, succeeds and stores its arguments; a setup_ratelimit call
\* made once a configuration is stored fails.
C20_SetupOnce ==
    /\ (config.calls = 0 /\ config.guard # "") => config.guard = "ValueError"
    /\ (config.calls = 1 /\ ValidSetupArgs(config.args)) =>
         /\ config.outcome = "ok"
         /\ config.STORE = config.args.store
         /\ config.RANKING = config.args.ranking
         /\ config.ENDPOINT_TTL = config.args.ttl
         /\ config.REASON_BUILDER = config.args.reason_builder
    /\ (config.calls > 1 /\ config.STORE # "") => config.outcome # "ok"

\* C21: the context a handler obtains is the one its own request bound, the
\* intents a request applies are those its own handler set and no other
\* request's calls reach its context, and once a request has finished,
\* normally or by an exception of its handler, its context is no longer set
\* in the slot of its execution context.
C21_ContextIsolation ==
    \A r \in Reqs :
        LET q == req[r]
        IN /\ q.handler_ran => q.obtained = r /\ q.data = q.asked
           /\ ~q.handler_ran => q.data = EmptyContext
           /\ Finished(q) => slot[r] = NotSet

\* The signal the order global count, identity count, global time, identity
\* time gives for the records request q loaded
ExpectedSignal(q) ==
    IF q.loaded_global.ignore_times > 0 THEN <<"IgnoreByCount", "endpoint">>
    ELSE IF q.loaded.ignore_times > 0 THEN <<"IgnoreByCount", "user">>
    ELSE IF q.loaded_global.ignore_until # None /\ q.loaded_global.ignore_until >= q.t_check
      THEN <<"IgnoreByTime", "endpoint">>
    ELSE IF q.loaded.ignore_until # None /\ q.loaded.ignore_until >= q.t_check
      THEN <<"IgnoreByTime", "user">>
    ELSE <<"rule", "">>

Suppressed(q) == q.signal.kind \in {"IgnoreByCount", "IgnoreByTime"}

\* C22: the evaluation looks at global ignore_times > 0, identity
\* ignore_times > 0, global ignore_until >= now, identity ignore_until >= now in
\* this order before any rule, and the first that holds decides the signal.
\* For a suppressed request no rule fires, nothing is blocked or promoted,
\* the local hits are cleared, the handler runs, a count signal lowers the one
\* counter it names by 1 and saves that record, a time signal lowers nothing.
C22_SuppressionOrder ==
    \A r \in Reqs :
        LET q == req[r]
        IN /\ Evaluated(q) => <<q.signal.kind, q.signal.context>> = ExpectedSignal(q)
           /\ (Evaluated(q) /\ Suppressed(q)) =>
                /\ q.rule = NoRule
                /\ q.rank = q.loaded_rank
                /\ "ranking" \notin q.writes
                /\ q.user_endpoint.hits = <<>>
                /\ q.user_endpoint.blocked_by_rule = q.loaded.blocked_by_rule
                /\ q.raised = ""
           /\ (Finished(q) /\ Suppressed(q)) =>
                /\ q.handler_ran
                /\ ExpectedSignal(q) = <<"IgnoreByCount", "endpoint">> =>
                     /\ estore = [q.loaded_global EXCEPT !.ignore_times = @ - 1]
                     /\ ustore[q.uid] = q.loaded
                /\ ExpectedSignal(q) = <<"IgnoreByCount", "user">> =>
                     /\ ustore[q.uid].ignore_times = q.loaded.ignore_times - 1
                     /\ ustore[q.uid].ignore_until = q.loaded.ignore_until
                     /\ estore = q.loaded_global
                /\ q.signal.kind = "IgnoreByTime" =>
                     /\ estore = q.loaded_global
                     /\ ustore[q.uid] = q.loaded

\* A request found the identity's count open behind a used-up global count
\* and a global time ignore still running, and lowered the identity's count
C22_Witness ==
    \E r \in Reqs :
        /\ Finished(req[r])
        /\ req[r].loaded_global.ignore_times = 0
        /\ req[r].loaded_global.ignore_until >= req[r].t_check
        /\ req[r].loaded.ignore_times = 1
        /\ req[r].signal = Signal("IgnoreByCount", "user", NoRule)
        /\ ustore[req[r].uid].ignore_times = 0

\* A request was suppressed by the identity's time ignore
C22_WitnessTime ==
    \E r \in Reqs :
        /\ Finished(req[r])
        /\ req[r].signal = Signal("IgnoreByTime", "user", NoRule)
        /\ Len(req[r].loaded.hits) = 2

\* Rule x applies to group g / is crossed by the hits h at time t
Applies(x, g) ==
    \/ x.affected_group = AnyGroup
    \/ x.affected_group = OneGroup(g)
    \/ x.affected_group.kind = "list" /\ g \in x.affected_group.names

Crossed(x, h, t) ==
    \/ /\ x.hits # None
       /\ Cardinality({i \in 1..Len(h) : h[i] >= t - Sec(x.batch_time)}) >= x.hits
    \/ /\ x.delay # None
       /\ Len(h) >= 2
       /\ h[Len(h)] - h[Len(h) - 1] < Sec(x.delay)

\* The positions of the bundle of request q whose rule applies and is crossed
Violated(q) ==
    {i \in 1..Len(q.rules) :
        /\ Applies(q.rules[i], Group(q.uid))
        /\ Crossed(q.rules[i], Append(q.loaded.hits, q.now), q.t_check)}

\* C23: with no suppression the evaluator returns the first rule of the
\* bundle, in declaration order, that applies to the identity's group and
\* whose threshold is crossed, and no rule when there is none; a rule for
\* other groups never fires.
C23_FirstApplicableRule ==
    \A r \in Reqs :
        LET q == req[r]
        IN Counted(q) =>
             /\ Violated(q) = {} => q.signal.rule = NoRule
             /\ Violated(q) # {} =>
                  q.signal.rule = q.rules[CHOOSE i \in Violated(q) : \A j \in Violated(q) : i <= j]
             /\ q.signal.rule # NoRule => Applies(q.signal.rule, Group(q.uid))

\* The delay rule, third of its bundle, fired for an identity of group
\* "default": the first rule is for "admin" only, the second was not crossed
C23_Witness ==
    \E r \in Reqs :
        /\ Counted(req[r])
        /\ req[r].uid = "U1"
        /\ Len(req[r].rules) = 3
        /\ req[r].signal.rule = req[r].rules[3]

\* The first rule fired for an identity of group "admin" although the second
\* and the third were crossed too
C23_WitnessFirst ==
    \E r \in Reqs :
        /\ Counted(req[r])
        /\ Violated(req[r]) = {1, 2, 3}
        /\ req[r].signal.rule = req[r].rules[1]

\* Nothing fired although a rule for another group was crossed
C23_WitnessNone ==
    \E r \in Reqs :
        /\ Counted(req[r])
        /\ req[r].uid = "U1"
        /\ Len(req[r].rules) = 3
        /\ Violated(req[r]) = {}
        /\ req[r].signal.rule = NoRule

\* The bundle that rank k selects among the site's ranks, with saturation
BundleAt(k) == site.ranks[Min(k, Len(site.ranks) - 1) + 1]

\* C24: a request is evaluated under the bundle ranks[min(r, len(ranks) - 1)],
\* where r is the rank the ranking store holds for the caller when it holds
\* one, and the rank of the identity derived from the request otherwise; a
\* rank at or beyond len(ranks) selects the last bundle.  (Stated of requests
\* that have not themselves written to the ranking store.)
C24_BundleByStoredRank ==
    \A r \in Reqs :
        LET q == req[r]
        IN (Evaluated(q) /\ "ranking" \notin q.writes) =>
             IF SavedRanks(q.uid) # {}
             THEN \E k \in SavedRanks(q.uid) : q.rules = BundleAt(k)
             ELSE q.rules = BundleAt(ContextRank(q.uid))

\* A request evaluated under the last bundle because the rank found under
\* its id is beyond the rank set
C24_WitnessSaturated ==
    \E r \in Reqs :
        /\ Evaluated(req[r])
        /\ "ranking" \notin req[r].writes
        /\ SavedRanks(req[r].uid) = {3}
        /\ req[r].rules = site.ranks[Len(site.ranks)]

\* A request whose found rank 0 wins over the rank 1 derived from the request
C24_WitnessStoredWins ==
    \E r \in Reqs :
        /\ Evaluated(req[r])
        /\ req[r].uid = "U2"
        /\ SavedRanks("U2") = {0}
        /\ req[r].rules = site.ranks[1]

\* A request that ended by cancellation, and where it was when cancelled
Cancelled(q) == Finished(q) /\ q.raised = "CancelledError"
BeforePreSave == {"get_user", "get_user_endpoint", "get_endpoint", "save_user",
                  "save_user_endpoint", "ignore_save"}

\* The rule of this request promoted the identity (lines 172-176)
Promoted(q) == q.rule # NoRule /\ q.rule.increase_rank

\* The stores show nothing of what the handler asked for: the local record is
\* the one saved before the handler, the global record the one loaded, and
\* the ranking store was written by a promotion at most (what the identity's
\* first request saved is all the store holds of it)
IntentsNotApplied(q) ==
    /\ ustore[q.uid] = q.saved
    /\ estore = q.loaded_global
    /\ "ranking" \in q.writes => Promoted(q)
    /\ q.nth = 1 =>
          \A e \in ranking :
              (e.key = key_maker(ModelText(e.value)) /\ e.value.unique_id = q.uid) =>
                  Promoted(q) /\ e.value = User(q.uid, Promote(q.loaded_rank, site.ranks))

\* C25 as stated: a request cancelled before its pre-handler save of the
\* local record has completed has written nothing to the store or the
\* ranking store; cancelled after it, the saved local record with the
\* appended hit remains and no context intent is applied.
C25_Original ==
    \A r \in Reqs :
        LET q == req[r]
        IN Cancelled(q) =>
             /\ q.raised_at \in BeforePreSave => q.writes = {}
             /\ (q.raised_at \notin BeforePreSave /\ q.presaved) =>
                  /\ Contains(ustore[q.uid].hits, q.now)
                  /\ IntentsNotApplied(q)

\* C25, amended: a cancelled request has made exactly the writes that come
\* before the await it was cancelled at.  Before the promotion save, or with
\* no promotion, before the pre-handler save: nothing.  At the pre-handler
\* save after a promotion: the ranking store only.  While the handler runs:
\* the pre-handler writes stand, the hit stays, and nothing the handler asked
\* for is applied; a suppressed request has no pre-handler save of line 210,
\* it has written the record whose counter it decremented, or nothing.
\* During the intents: those saved before the await stand.
C25_Amended ==
    \A r \in Reqs :
        LET q == req[r]
        IN Cancelled(q) =>
             /\ q.raised_at \in {"get_user", "get_user_endpoint", "get_endpoint",
                                 "save_user", "ignore_save"} =>
                  q.writes = {}
             /\ q.raised_at \in {"get_endpoint", "save_user", "ignore_save"} =>
                  ustore[q.uid] = q.loaded
             /\ q.raised_at = "save_user_endpoint" =>
                  /\ q.writes = IF Promoted(q) THEN {"ranking"} ELSE {}
                  /\ ustore[q.uid] = q.loaded
             /\ (q.raised_at = "handler" /\ q.presaved) =>
                  /\ Contains(ustore[q.uid].hits, q.now)
                  /\ IntentsNotApplied(q)
             /\ (q.raised_at = "handler" /\ ~q.presaved) =>
                  /\ Suppressed(q)
                  /\ q.writes = IF q.signal.kind = "IgnoreByTime" THEN {}
                                ELSE IF q.signal.context = "user" THEN {"local"}
                                ELSE {"global"}
                  /\ "local" \notin q.writes => ustore[q.uid] = q.loaded
                  /\ "local" \in q.writes =>
                        ustore[q.uid] = [q.loaded EXCEPT !.hits = <<>>,
                                                         !.ignore_times = @ - 1]
             /\ (q.raised_at = "intent_save_user" /\ q.asked.ignore_data.level = "endpoint") =>
                  /\ "global" \in q.writes
                  /\ estore.ignore_times = q.asked.ignore_data.times
             /\ q.raised_at = "intent_save_limit" =>
                  ustore[q.uid].blocked_at = q.saved.blocked_at \/ ~q.presaved

\* Cancelled while the handler ran, after the handler had asked for a limit,
\* a rank change and an ignore: the hit stays and nothing was applied
C25_Witness ==
    \E r \in Reqs :
        /\ Cancelled(req[r])
        /\ req[r].raised_at = "handler"
        /\ req[r].presaved
        /\ req[r].asked.limit_data.set
        /\ ustore[req[r].uid] = req[r].saved

\* Cancelled at the pre-handler save after the promotion was saved
C25_WitnessPromoted ==
    \E r \in Reqs :
        /\ Cancelled(req[r])
        /\ req[r].raised_at = "save_user_endpoint"
        /\ req[r].writes = {"ranking"}

\* Cancelled between two intent saves
C25_WitnessMidIntents ==
    \E r \in Reqs :
        /\ Cancelled(req[r])
        /\ req[r].raised_at = "intent_save_user"
        /\ "global" \in req[r].writes

\* A sequence of timestamps in non-decreasing order
Ordered(h) == \A i \in 1..Len(h) - 1 : h[i] <= h[i + 1]

\* C26: under any interleaving of concurrent requests of one identity, the
\* persisted local hits are in non-decreasing timestamp order, and the gap
\* hits[-1] - hits[-2] that the delay check of a request looks at (its own
\* timestamp minus the last loaded one) is never negative.
C26_HitsOrdered ==
    /\ \A u \in Users : Ordered(ustore[u].hits)
    /\ \A r \in Reqs :
           (Counted(req[r]) /\ req[r].loaded.hits # <<>>) =>
               req[r].now - Last(req[r].loaded.hits) >= 0

\* C27: an automatic promotion never lowers an identity's rank: after a rule
\* with increase_rank has fired and the rank was saved, the rank the request
\* works with and the rank it saved are greater than or equal to the rank
\* the identity had when the request arrived.
C27_PromotionNeverLowers ==
    \A r \in Reqs :
        LET q == req[r]
        IN (Promoted(q) /\ "ranking" \in q.writes /\ ~q.handler_ran) =>
             /\ q.rank >= q.loaded_rank
             /\ \A e \in ranking :
                    (e.key = key_maker(ModelText(e.value)) /\ e.value.unique_id = q.uid)
                        => e.value.rank >= q.loaded_rank

\* C28: when the handler raises an exception listed in no_hit_on_exceptions,
\* the request leaves the persisted state as it was before the request: the
\* local record has the hits it had before, carries no block set by this
\* request, and the identity's rank was not promoted by this request.
C28_ListedExceptionRestores ==
    \A r \in Reqs :
        LET q == req[r]
            e == ustore[q.uid]
        IN (HandlerFailed(q, "ValueError") /\ IsInstance("ValueError", site.no_hit_on_exceptions)) =>
             /\ e.hits = q.loaded.hits
             /\ e.blocked_at = q.loaded.blocked_at
             /\ e.blocked_by_rule = q.loaded.blocked_by_rule
             /\ "ranking" \notin q.writes

\* A request whose handler ran without intents and returned
PlainDone(q) == Finished(q) /\ q.handler_ran /\ q.raised = "" /\ q.asked = EmptyContext

\* C29: a request suppressed by a time-based ignore of either scope, whose
\* handler sets no intent, writes nothing to the store or the ranking store,
\* so the persisted local record, its hits included, is the same before and
\* after; a request suppressed by the global count ignore writes the global
\* record only.
C29_IgnoreFrame ==
    \A r \in Reqs :
        LET q == req[r]
        IN PlainDone(q) =>
             /\ q.signal.kind = "IgnoreByTime" =>
                  /\ q.writes = {}
                  /\ ustore[q.uid] = q.loaded
                  /\ estore = q.loaded_global
                  /\ \A e \in ranking : e.key # key_maker(ModelText(e.value))
             /\ (q.signal.kind = "IgnoreByCount" /\ q.signal.context = "endpoint") =>
                  /\ q.writes = {"global"}
                  /\ ustore[q.uid] = q.loaded
                  /\ estore = [q.loaded_global EXCEPT !.ignore_times = @ - 1]
                  /\ \A e \in ranking : e.key # key_maker(ModelText(e.value))

\* An identity-scope time ignore over a record that holds hits
C29_Witness ==
    \E r \in Reqs :
        /\ PlainDone(req[r])
        /\ req[r].signal = Signal("IgnoreByTime", "user", NoRule)
        /\ req[r].loaded.hits # <<>>
        /\ ustore[req[r].uid].hits = req[r].loaded.hits

\* An endpoint-scope time ignore, and a global count ignore
C29_WitnessGlobalTime ==
    \E r \in Reqs :
        /\ PlainDone(req[r])
        /\ req[r].signal = Signal("IgnoreByTime", "endpoint", NoRule)
        /\ req[r].loaded.hits # <<>>

C29_WitnessGlobalCount ==
    \E r \in Reqs :
        /\ PlainDone(req[r])
        /\ req[r].signal = Signal("IgnoreByCount", "endpoint", NoRule)
        /\ req[r].loaded.hits # <<>>
        /\ estore.ignore_times = 0

\* C30: the engine never decrements ignore_times below 0: under any
\* interleaving of concurrent requests, a step that changes the persisted
\* ignore_times of the global or of a local record leaves it at 0 or more,
\* and a request about to save a decremented counter had loaded a counter
\* above 0 and holds exactly one less.
C30_CounterNeverNegative ==
    [][ /\ estore'.ignore_times # estore.ignore_times => estore'.ignore_times >= 0
        /\ \A u \in Users :
               ustore'[u].ignore_times # ustore[u].ignore_times
                   => ustore'[u].ignore_times >= 0
        /\ \A r \in Reqs :
               req'[r].pc = "ignore_save" =>
                   IF req'[r].signal.context = "user"
                   THEN /\ req'[r].loaded.ignore_times > 0
                        /\ req'[r].user_endpoint.ignore_times = req'[r].loaded.ignore_times - 1
                   ELSE /\ req'[r].loaded_global.ignore_times > 0
                        /\ req'[r].endpoint.ignore_times
                               = req'[r].loaded_global.ignore_times - 1 ]_vars

\* Two overlapping requests both loaded the global counter at 1 and both
\* saved it decremented
C30_Witness ==
    /\ estore.ignore_times = 0
    /\ \A r \in Reqs :
           /\ req[r].loaded_global.ignore_times = 1
           /\ "global" \in req[r].writes

\* The same for the local counter
C30_WitnessLocal ==
    /\ ustore["U1"].ignore_times = 0
    /\ \A r \in Reqs :
           /\ req[r].loaded.ignore_times = 1
           /\ "local" \in req[r].writes
           /\ req[r].signal.kind = "IgnoreByCount"


====
